---- MODULE Spec2Model ----
(***************************************************************************)
(* Model of streamlit_app.py: the axial-length growth-curve application.   *)
(*                                                                         *)
(* The script is re-executed top to bottom on every user interaction (a    *)
(* gender toggle or a submission of the "Add visit" form); what survives   *)
(* between two executions is st.session_state and the widgets' state.      *)
(*                                                                         *)
(* Numbers: ages are kept in hundredths of a year and axial lengths in     *)
(* hundredths of a millimetre (the form's step is 0.01 and the age is      *)
(* rounded to two decimals), so 23.5 mm is 2350 and 6.0 years is 600.      *)
(* Dates are <<year, month, day>>.  Distances are compared exactly; the    *)
(* code compares the float64 differences, which agree wherever a tie is    *)
(* exact in binary (table ages on whole or half years).                    *)
(***************************************************************************)
EXTENDS Integers, Sequences, FiniteSets, TLC

VARIABLES
    files,                  \* the two CSV files, gender -> sequence of source rows
    gender,                 \* st.sidebar.radio("Gender")
    df,                     \* load_growth_curve(gender) of the last execution
    visits,                 \* st.session_state.visits
    ss_dob,                 \* st.session_state.dob
    ss_visit_date,          \* st.session_state.visit_date
    w_dob_value,            \* value= of the "Date of birth" widget as last rendered
    w_visit_value,          \* value= of the "Visit date" widget as last rendered
    w_visit_min,            \* min_value= of the "Visit date" widget as last rendered
    visits_current_gender,  \* the filtered log of the last execution
    estimates,              \* section 7 of the last execution, eye -> outcome
    submitted_under,        \* history: gender -> number of submissions made under it
    last_input,             \* history: the dates the last submission carried
    e_table,                \* estimator on its own: the source rows
    e_age,                  \* estimator on its own: observed age
    e_value,                \* estimator on its own: observed axial length
    e_out                   \* estimator on its own: outcome

vars == <<files, gender, df, visits, ss_dob, ss_visit_date, w_dob_value,
          w_visit_value, w_visit_min, visits_current_gender, estimates,
          submitted_under, last_input, e_table, e_age, e_value, e_out>>

appVars == <<files, gender, df, visits, ss_dob, ss_visit_date, w_dob_value,
             w_visit_value, w_visit_min, visits_current_gender, estimates,
             submitted_under, last_input>>

estVars == <<e_table, e_age, e_value, e_out>>

(***************************************************************************)
(* Bounds of the model.                                                    *)
(***************************************************************************)
MaxSubmits == 2     \* form submissions in one session
MaxRows == 3        \* source rows of a table given to the estimator on its own

(***************************************************************************)
(* Dates: datetime.date, with subtraction and comparison as Python has     *)
(* them (proleptic Gregorian ordinals).                                    *)
(***************************************************************************)
IsLeap(y) == (y % 4 = 0) /\ ((y % 100 # 0) \/ (y % 400 = 0))

DaysInMonth(y, m) ==
    IF m = 2 THEN (IF IsLeap(y) THEN 29 ELSE 28)
    ELSE IF m \in {4, 6, 9, 11} THEN 30 ELSE 31

RECURSIVE DaysBeforeMonth(_, _)
DaysBeforeMonth(y, m) ==
    IF m = 1 THEN 0 ELSE DaysBeforeMonth(y, m - 1) + DaysInMonth(y, m - 1)

DaysBeforeYear(y) ==
    (y - 1) * 365 + ((y - 1) \div 4) - ((y - 1) \div 100) + ((y - 1) \div 400)

toordinal(d) == DaysBeforeYear(d[1]) + DaysBeforeMonth(d[1], d[2]) + d[3]

\* (a - b).days
DaysBetween(a, b) == toordinal(a) - toordinal(b)

DateLT(a, b) == toordinal(a) < toordinal(b)
DateLE(a, b) == toordinal(a) <= toordinal(b)

\* date(1990, 1, 1), the lower bound of the date of birth
MinDob == <<1990, 1, 1>>

\* date(2015, 1, 1), the date of birth a fresh session starts with
DefaultDob == <<2015, 1, 1>>

\* date.today(): the day the session runs on
Today == <<2022, 1, 1>>

\* The dates a user picks in the model.
Dates == {<<2015, 1, 1>>, <<2021, 1, 1>>, <<2022, 1, 1>>}

(***************************************************************************)
(* Age in years, lines 130-131: round(age_days / 365.25, 2), in            *)
(* hundredths.  age_days / 365.25 * 100 = age_days * 400 / 1461; Python    *)
(* rounds to the nearest hundredth, and no day count falls on a half       *)
(* (800 * days is even, 1461 is odd), so half-to-even never decides.       *)
(***************************************************************************)
age_years_365(visit_date, dob) ==
    (DaysBetween(visit_date, dob) * 200 + 365) \div 730

age_years(visit_date, dob) ==
    (DaysBetween(visit_date, dob) * 800 + 1461) \div 2922

(***************************************************************************)
(* The reference tables.                                                   *)
(***************************************************************************)
Genders == {"Male", "Female"}

\* The percentile columns of a file, in file order.
percentile_cols == <<"3", "5", "10", "25", "50", "75", "90", "95">>

\* A missing value (NaN) of a column of numbers.
NaN == -1

\* A cell of the Age column as read from the file: a number, some other
\* text, or nothing.
NumCell(v) == [kind |-> "num", v |-> v]
TextCell == [kind |-> "text", v |-> NaN]
EmptyCell == [kind |-> "empty", v |-> NaN]

NoValues == [c \in 1..Len(percentile_cols) |-> NaN]

Row6 == [Age |-> NumCell(600),
         vals |-> <<2170, 2190, 2210, 2250, 2300, 2350, 2400, 2430>>]
Row7 == [Age |-> NumCell(700),
         vals |-> <<2200, 2220, 2240, 2280, 2330, 2380, 2430, 2460>>]
Row8 == [Age |-> NumCell(800),
         vals |-> <<2230, 2250, 2270, 2310, 2360, 2410, 2460, 2490>>]
\* a second row for age 6, its values not in increasing order
Row6b == [Age |-> NumCell(600),
          vals |-> <<2400, 2300, 2300, 2250, 2350, 2350, 2200, 2500>>]
\* a row whose Age is not a number (a units line, a note)
RowText == [Age |-> TextCell,
            vals |-> <<2100, 2120, 2140, 2180, 2230, 2280, 2330, 2360>>]
\* a row of separators only: every cell empty
RowEmpty == [Age |-> EmptyCell, vals |-> NoValues]

RowPool == {Row6, Row7, Row8, Row6b, RowText, RowEmpty}

\* pd.read_csv: the rows in file order, labelled 0, 1, 2, ... (RangeIndex)
read_csv(rows) ==
    [i \in 1..Len(rows) |-> [idx |-> i - 1, Age |-> rows[i].Age, vals |-> rows[i].vals]]

\* df.dropna(how="all"): drop the rows in which every cell is missing
IsAllNaN(r) ==
    /\ r.Age.kind = "empty"
    /\ \A c \in 1..Len(r.vals) : r.vals[c] = NaN

dropna_all(t) == SelectSeq(t, LAMBDA r : ~IsAllNaN(r))

\* pd.to_numeric(df["Age"], errors="coerce")
to_numeric(cell) == IF cell.kind = "num" THEN cell.v ELSE NaN

coerce_age(t) ==
    [i \in 1..Len(t) |-> [idx |-> t[i].idx, Age |-> to_numeric(t[i].Age), vals |-> t[i].vals]]

\* df.dropna(subset=["Age"]); the rows kept keep their labels
dropna_age(t) == SelectSeq(t, LAMBDA r : r.Age # NaN)

load_growth_curve_rows(rows) == dropna_age(coerce_age(dropna_all(read_csv(rows))))

(***************************************************************************)
(* Section 7: the approximate percentile of one measurement.               *)
(***************************************************************************)
Abs(x) == IF x < 0 THEN -x ELSE x

SetMin(S) == CHOOSE x \in S : \A y \in S : x <= y

\* (df["Age"] - age).abs().argsort() is a Series that keeps df's labels, and
\* [0] on it looks the LABEL 0 up: a KeyError when no row is labelled 0.
HasLabel0(t) == \E i \in 1..Len(t) : t[i].idx = 0

\* The positions argsort can put first.  argsort's default kind is
\* "quicksort", which is not stable: among equal distances the position that
\* comes first depends on the numpy build, so it is any of them.
argsort_first(t, age) ==
    {i \in 1..Len(t) :
        \A j \in 1..Len(t) : Abs(t[i].Age - age) <= Abs(t[j].Age - age)}

\* df[df["Age"] == nearest_age].iloc[0]
row_of_age(t, a) == t[SetMin({i \in 1..Len(t) : t[i].Age = a})]

\* min(differences, key=differences.get): the first column, in column order,
\* whose difference no other column undercuts
approx_percentile_signed(row, value) ==
    CHOOSE c \in 1..Len(percentile_cols) :
        /\ \A k \in 1..Len(percentile_cols) :
               row.vals[c] - value <= row.vals[k] - value
        /\ \A k \in 1..(c - 1) :
               row.vals[k] - value > row.vals[c] - value

approx_percentile(row, value) ==
    CHOOSE c \in 1..Len(percentile_cols) :
        /\ \A k \in 1..Len(percentile_cols) :
               Abs(row.vals[c] - value) <= Abs(row.vals[k] - value)
        /\ \A k \in 1..(c - 1) :
               Abs(row.vals[k] - value) > Abs(row.vals[c] - value)

\* the stored value reported with the label
approx_value(row, c) == row.vals[c]

NoEstimate == [status |-> "none"]
Failed == [status |-> "error"]

\* Lines 259-264 for one measurement, with the row argsort put first at
\* position pos.
EstimateAt(t, pos, age, value) ==
    LET nearest_age == t[pos].Age
        row == row_of_age(t, nearest_age)
        c == approx_percentile(row, value)
    IN [status |-> "ok",
        age |-> age,
        value |-> value,
        nearest_age |-> nearest_age,
        row |-> row,
        percentile |-> percentile_cols[c],
        approx_value |-> approx_value(row, c)]

\* Every outcome lines 259-264 can have.
estimate(t, age, value) ==
    IF ~HasLabel0(t)
    THEN {Failed}
    ELSE {EstimateAt(t, pos, age, value) : pos \in argsort_first(t, age)}

(***************************************************************************)
(* The estimator on its own: any table of at most MaxRows source rows, any *)
(* observed age and axial length.                                          *)
(***************************************************************************)
RECURSIVE SeqsUpTo(_, _)
SeqsUpTo(S, n) ==
    IF n = 0 THEN {<<>>}
    ELSE LET shorter == SeqsUpTo(S, n - 1)
         IN shorter \cup {Append(s, x) : s \in {q \in shorter : Len(q) = n - 1}, x \in S}

Tables == SeqsUpTo(RowPool, MaxRows)

ObservedAges == {300, 600, 650, 700, 750, 1200}
ObservedValues == {1800, 2325, 2345, 2350, 3000}

(***************************************************************************)
(* The application.                                                        *)
(***************************************************************************)
RowF6 == [Age |-> NumCell(600),
          vals |-> <<2150, 2170, 2190, 2230, 2275, 2320, 2370, 2400>>]
RowF8 == [Age |-> NumCell(800),
          vals |-> <<2210, 2230, 2250, 2290, 2335, 2385, 2435, 2465>>]

\* male.csv and female.csv, as the session finds them
FileChoices ==
    { [g \in Genders |-> IF g = "Male" THEN <<Row6, Row7, Row8>> ELSE <<RowF6, RowF8>>],
      [g \in Genders |-> IF g = "Male" THEN <<RowText, Row6, Row8>> ELSE <<RowF6, RowF8>>],
      [g \in Genders |-> IF g = "Male" THEN <<Row6, Row8>> ELSE <<RowText, RowEmpty>>] }

\* load_growth_curve(gender): the file GENDER_FILES names for the gender
load_growth_curve_male(g) == load_growth_curve_rows(files["Male"])

load_growth_curve(g) == load_growth_curve_rows(files[g])

\* what a user types into the form
Labels == {"baseline", "6M"}
AxialRight == {2350}
AxialLeft == {2330}
MinAxial == 1800
MaxAxial == 3000

\* min_value= of the "Visit date" input, line 123
visit_date_min_fixed(dob) == MinDob

visit_date_min(dob) == dob

\* the two rows of one submission, lines 150-169
new_rows_os_only(g, dob, label, visit_date, age, od, os) ==
    << [Gender |-> g, DateOfBirth |-> dob, Visit |-> label, VisitDate |-> visit_date,
        Age |-> age, Eye |-> "OS", AxialLength |-> os] >>

new_rows(g, dob, label, visit_date, age, od, os) ==
    << [Gender |-> g, DateOfBirth |-> dob, Visit |-> label, VisitDate |-> visit_date,
        Age |-> age, Eye |-> "OD", AxialLength |-> od],
       [Gender |-> g, DateOfBirth |-> dob, Visit |-> label, VisitDate |-> visit_date,
        Age |-> age, Eye |-> "OS", AxialLength |-> os] >>

\* st.session_state.visits[st.session_state.visits["Gender"] == gender]
filter_gender_all(log, g) == log

filter_gender(log, g) == SelectSeq(log, LAMBDA r : r.Gender = g)

\* visits_current_gender[visits_current_gender["Eye"] == eye]
filter_eye(log, eye) == SelectSeq(log, LAMBDA r : r.Eye = eye)

\* eye_data.iloc[-1]
RECURSIVE latest_by_date(_)
latest_by_date(eye_data) ==
    IF Len(eye_data) = 1 THEN eye_data[1]
    ELSE LET rest == latest_by_date(Tail(eye_data))
         IN IF DateLT(rest.VisitDate, eye_data[1].VisitDate) THEN eye_data[1] ELSE rest

last_of(eye_data) == eye_data[Len(eye_data)]

\* One pass of the loop of section 7 for an eye: every outcome it can have.
EyeOutcomes(t, shown, eye) ==
    LET eye_data == filter_eye(shown, eye)
    IN IF eye_data = <<>>
       THEN {NoEstimate}
       ELSE LET last == last_of(eye_data)
            IN {[status |-> e.status, last |-> last, out |-> e] :
                    e \in estimate(t, last.Age, last.AxialLength)}

\* Section 7: OD, then OS; an exception ends the execution.
Section7(t, shown) ==
    IF shown = <<>>
    THEN {[e \in {"OD", "OS"} |-> NoEstimate]}
    ELSE UNION { IF od.status = "error"
                 THEN {[e \in {"OD", "OS"} |-> IF e = "OD" THEN od ELSE NoEstimate]}
                 ELSE {[e \in {"OD", "OS"} |-> IF e = "OD" THEN od ELSE os] :
                           os \in EyeOutcomes(t, shown, "OS")}
               : od \in EyeOutcomes(t, shown, "OD") }

(***************************************************************************)
(* One execution of the script for the selected gender g.  sub says        *)
(* whether the form was submitted, and inp is what the browser sent.       *)
(*                                                                         *)
(* A date_input is identified by its parameters: rendered again with the   *)
(* same value= and min_value= it returns what the browser sent for it,     *)
(* rendered with other parameters it is a new widget and returns value=.   *)
(* Without a submission the form's widgets hold their defaults             *)
(* (clear_on_submit=True).                                                 *)
(***************************************************************************)
Script(g, sub, inp) ==
    LET t == load_growth_curve(g)
        dob == IF sub /\ ss_dob = w_dob_value THEN inp.dob ELSE ss_dob
        \* lines 115-116
        stored == IF DateLT(ss_visit_date, dob) THEN dob ELSE ss_visit_date
        vmin == visit_date_min(dob)
        visit_date == IF sub /\ stored = w_visit_value /\ vmin = w_visit_min
                      THEN inp.visit_date ELSE stored
        age == age_years(visit_date, dob)
        log == IF sub
               THEN visits \o new_rows(g, dob, inp.label, visit_date, age, inp.od, inp.os)
               ELSE visits
        shown == filter_gender(log, g)
    IN /\ gender' = g
       /\ df' = t
       /\ w_dob_value' = ss_dob
       /\ w_visit_value' = stored
       /\ w_visit_min' = vmin
       /\ ss_dob' = IF sub THEN dob ELSE ss_dob
       /\ ss_visit_date' = IF sub THEN visit_date ELSE stored
       /\ visits' = log
       /\ visits_current_gender' = shown
       /\ estimates' \in Section7(t, shown)
       /\ submitted_under' = IF sub
                             THEN [submitted_under EXCEPT ![g] = @ + 1]
                             ELSE submitted_under
       /\ last_input' = IF sub THEN [dob |-> inp.dob, visit_date |-> inp.visit_date]
                        ELSE last_input
       /\ UNCHANGED files

NoInput == [dob |-> DefaultDob, visit_date |-> Today, label |-> "baseline",
            od |-> 2350, os |-> 2330]

\* The user picks the other gender in the sidebar.
GenderToggle ==
    /\ \E g \in Genders \ {gender} : Script(g, FALSE, NoInput)
    /\ UNCHANGED estVars

\* The user fills the form in and presses "Add visit".  The browser holds
\* each input within the range it was rendered with.
Submit ==
    /\ Len(visits) < 2 * MaxSubmits
    /\ \E d \in Dates, v \in Dates, l \in Labels, od \in AxialRight, os \in AxialLeft :
          /\ DateLE(MinDob, d) /\ DateLE(d, Today)
          /\ DateLE(w_visit_min, v) /\ DateLE(v, Today)
          /\ MinAxial <= od /\ od <= MaxAxial
          /\ MinAxial <= os /\ os <= MaxAxial
          /\ Script(gender, TRUE,
                    [dob |-> d, visit_date |-> v, label |-> l, od |-> od, os |-> os])
    /\ UNCHANGED estVars

\* The state after the first execution of a fresh session.
InitApp ==
    /\ files \in FileChoices
    /\ gender = "Male"
    /\ df = load_growth_curve("Male")
    /\ visits = <<>>
    /\ ss_dob = DefaultDob
    /\ ss_visit_date = Today
    /\ w_dob_value = DefaultDob
    /\ w_visit_value = Today
    /\ w_visit_min = visit_date_min(DefaultDob)
    /\ visits_current_gender = <<>>
    /\ estimates = [e \in {"OD", "OS"} |-> NoEstimate]
    /\ submitted_under = [g \in Genders |-> 0]
    /\ last_input = [dob |-> DefaultDob, visit_date |-> Today]

EstIdle ==
    /\ e_table = <<>>
    /\ e_age = 0
    /\ e_value = 0
    /\ e_out = NoEstimate

Init == InitApp /\ EstIdle

Next == GenderToggle \/ Submit

Spec == Init /\ [][Next]_vars

\* The estimator applied to its inputs.
Estimate ==
    /\ e_out' \in estimate(load_growth_curve_rows(e_table), e_age, e_value)
    /\ UNCHANGED <<e_table, e_age, e_value>>
    /\ UNCHANGED appVars

InitEstimate ==
    /\ InitApp
    /\ files = [g \in Genders |-> IF g = "Male" THEN <<Row6, Row7, Row8>> ELSE <<RowF6, RowF8>>]
    /\ e_table \in Tables
    /\ e_age \in ObservedAges
    /\ e_value \in ObservedValues
    /\ e_out = NoEstimate

NextEstimate == Estimate

SpecEstimate == InitEstimate /\ [][NextEstimate]_vars

(***************************************************************************)
(* Properties.                                                             *)
(***************************************************************************)
SetMax(S) == CHOOSE x \in S : \A y \in S : x >= y

ColumnOf(label) == CHOOSE c \in 1..Len(percentile_cols) : percentile_cols[c] = label

\* the normalized table the estimator on its own works on
ETable == load_growth_curve_rows(e_table)

\* the positions of ETable nearest to the observed age
ENearest ==
    {i \in 1..Len(ETable) :
        \A j \in 1..Len(ETable) : Abs(ETable[i].Age - e_age) <= Abs(ETable[j].Age - e_age)}

\* C1: for every non-empty reference table and every observed age, the
\* nearest-age step selects a row of the table, and no row of the table is
\* strictly closer to the observed age than the selected one.
C1_NearestAgeSelected ==
    (e_out # NoEstimate /\ Len(ETable) > 0) =>
        /\ e_out.status = "ok"
        /\ \E i \in 1..Len(ETable) : ETable[i].Age = e_out.nearest_age
        /\ \A j \in 1..Len(ETable) :
               Abs(e_out.nearest_age - e_age) <= Abs(ETable[j].Age - e_age)

\* C2: the returned percentile label attains the minimum of
\* |row[label] - observed value| over all percentile columns of the selected
\* row, and the returned curve value is the value the row stores under the
\* returned label.
C2_NearestPercentile ==
    e_out.status = "ok" =>
        LET c == ColumnOf(e_out.percentile)
        IN /\ e_out.row \in {ETable[i] : i \in 1..Len(ETable)}
           /\ \A k \in 1..Len(percentile_cols) :
                  Abs(e_out.row.vals[c] - e_value) <= Abs(e_out.row.vals[k] - e_value)
           /\ e_out.approx_value = e_out.row.vals[c]

\* C2's case: an estimate whose label is an inner column and whose curve
\* value differs from the observed value.
C2_Witness ==
    /\ e_out.status = "ok"
    /\ e_out.percentile \in {"25", "50", "75"}
    /\ e_out.approx_value # e_value
    /\ Len(ETable) >= 2

LogOf(g) == {i \in 1..Len(visits) : visits[i].Gender = g}

\* C4: the visits shown for the selected gender are exactly the log's
\* records of that gender, in log order, two per submission made under that
\* gender; with no submission made under the selected gender nothing is
\* shown and no estimate is displayed.
C4_NoCrossGenderLeak ==
    /\ \A k \in 1..Len(visits_current_gender) :
           visits_current_gender[k].Gender = gender
    /\ Len(visits_current_gender) = Cardinality(LogOf(gender))
    /\ Len(visits_current_gender) = 2 * submitted_under[gender]
    /\ \A i \in LogOf(gender) :
           visits_current_gender[Cardinality({j \in LogOf(gender) : j <= i})] = visits[i]
    /\ (submitted_under[gender] = 0 =>
           /\ visits_current_gender = <<>>
           /\ \A e \in {"OD", "OS"} : estimates[e] = NoEstimate)

\* C4's case: visits were added under Male only, and Female is selected.
C4_Witness ==
    /\ gender = "Female"
    /\ submitted_under["Male"] = 2
    /\ submitted_under["Female"] = 0
    /\ Len(visits) = 4
    /\ visits_current_gender = <<>>

SameVisit(a, b) ==
    /\ a.Gender = b.Gender
    /\ a.DateOfBirth = b.DateOfBirth
    /\ a.Visit = b.Visit
    /\ a.VisitDate = b.VisitDate
    /\ a.Age = b.Age

\* C5: the log is append-only.  A submission extends it by exactly two
\* records, OD then OS, that share gender, date of birth, label, visit date
\* and age; the records already there keep their positions and fields; an
\* execution without a submission leaves the log as it is.
C5_AppendOnly ==
    [][ /\ SubSeq(visits', 1, Len(visits)) = visits
        /\ (submitted_under' # submitted_under =>
               /\ Len(visits') = Len(visits) + 2
               /\ visits'[Len(visits) + 1].Eye = "OD"
               /\ visits'[Len(visits) + 2].Eye = "OS"
               /\ SameVisit(visits'[Len(visits) + 1], visits'[Len(visits) + 2])
               /\ visits'[Len(visits) + 1].Gender = gender')
        /\ (submitted_under' = submitted_under => visits' = visits) ]_vars

\* C5's case: two submissions under one gender, then a toggle.
C5_Witness ==
    /\ Len(visits) = 4
    /\ visits[1].Eye = "OD" /\ visits[2].Eye = "OS"
    /\ visits[3].Eye = "OD" /\ visits[4].Eye = "OS"
    /\ visits[1].Visit # visits[3].Visit
    /\ gender # visits[4].Gender

\* C6: every record of the log has visitDate >= dateOfBirth and an age that
\* is not negative.
C6_VisitNotBeforeBirth ==
    \A i \in 1..Len(visits) :
        /\ DateLE(visits[i].DateOfBirth, visits[i].VisitDate)
        /\ visits[i].Age >= 0

\* C6's case: a submission that moved the date of birth past the visit date
\* it carried, and was recorded with that date of birth.
C6_Witness ==
    /\ Len(visits) > 0
    /\ DateLT(last_input.visit_date, last_input.dob)
    /\ visits[Len(visits)].DateOfBirth = last_input.dob
    /\ visits[Len(visits)].DateOfBirth # DefaultDob

\* C7 as stated: the stored age is the day count over 365.25 rounded to two
\* decimals, and 2015-01-01 to 2021-01-01 is stored as 5.99.
C7_Example599 ==
    \A i \in 1..Len(visits) :
        LET r == visits[i]
            days == DaysBetween(r.VisitDate, r.DateOfBirth)
        IN /\ 2 * Abs(r.Age * 1461 - days * 400) <= 1461
           /\ (r.DateOfBirth = <<2015, 1, 1>> /\ r.VisitDate = <<2021, 1, 1>>) =>
                  r.Age = 599

\* C7 amended: the stored age is the hundredth nearest to the day count over
\* 365.25, and 2015-01-01 to 2021-01-01 (2192 days) is stored as 6.0.
C7_AgeRounded ==
    \A i \in 1..Len(visits) :
        LET r == visits[i]
            days == DaysBetween(r.VisitDate, r.DateOfBirth)
        IN /\ 2 * Abs(r.Age * 1461 - days * 400) <= 1461
           /\ (r.DateOfBirth = <<2015, 1, 1>> /\ r.VisitDate = <<2021, 1, 1>>) =>
                  (days = 2192 /\ r.Age = 600)

\* C7's case: a record of a visit on 2021-01-01 of a child born 2015-01-01.
C7_Witness ==
    \E i \in 1..Len(visits) :
        /\ visits[i].DateOfBirth = <<2015, 1, 1>>
        /\ visits[i].VisitDate = <<2021, 1, 1>>

\* the positions of the log that hold a record of the selected gender and eye
LogOfEye(eye) ==
    {i \in 1..Len(visits) : visits[i].Gender = gender /\ visits[i].Eye = eye}

\* C8: the estimate displayed for an eye is computed from the record added
\* last among the log's records of the selected gender and that eye,
\* whatever the visit dates.
C8_LastAdded ==
    \A eye \in {"OD", "OS"} :
        estimates[eye].status = "ok" =>
            /\ LogOfEye(eye) # {}
            /\ estimates[eye].last = visits[SetMax(LogOfEye(eye))]
            /\ estimates[eye].out.age = visits[SetMax(LogOfEye(eye))].Age
            /\ estimates[eye].out.value = visits[SetMax(LogOfEye(eye))].AxialLength

\* C8's case: the estimate is for a visit dated earlier than a visit of the
\* same gender and eye that was added before it.
C8_Witness ==
    \E eye \in {"OD", "OS"} :
        /\ estimates[eye].status = "ok"
        /\ \E i \in LogOfEye(eye) :
               /\ i < SetMax(LogOfEye(eye))
               /\ DateLT(visits[SetMax(LogOfEye(eye))].VisitDate, visits[i].VisitDate)
               /\ estimates[eye].last.VisitDate = visits[SetMax(LogOfEye(eye))].VisitDate

RowsOf(t) == {[Age |-> t[i].Age, vals |-> t[i].vals] : i \in 1..Len(t)}

\* C9: every estimate displayed pairs a record with the reference table of
\* the record's own gender: the table consulted is the one of the selected
\* gender's file, and the record's gender is the selected gender.
C9_OwnGenderTable ==
    \A eye \in {"OD", "OS"} :
        estimates[eye].status = "ok" =>
            /\ estimates[eye].last.Gender = gender
            /\ df = load_growth_curve_rows(files[gender])
            /\ [Age |-> estimates[eye].out.row.Age, vals |-> estimates[eye].out.row.vals]
                   \in RowsOf(load_growth_curve_rows(files[estimates[eye].last.Gender]))

\* C9's case: records of both genders are in the log and a Female record is
\* being estimated.
C9_Witness ==
    /\ gender = "Female"
    /\ submitted_under["Male"] > 0
    /\ estimates["OD"].status = "ok"
    /\ estimates["OD"].last.Gender = "Female"

\* C10: the table normalization produces is never empty, so the estimator
\* is never invoked on an empty table.
C10_NeverEmptyTable ==
    \A eye \in {"OD", "OS"} :
        estimates[eye] # NoEstimate => Len(df) > 0

====
